---------------------------- MODULE Spec2Model ----------------------------
(***************************************************************************)
(* A model of src/cljs/math/biginteger.js: the BigInteger class, its limb  *)
(* primitives, and a client that creates instances and calls methods.      *)
(*                                                                         *)
(* JavaScript numbers.  The code computes with doubles that hold integers  *)
(* between about -2^33 and 2^34; TLC's integers stop at 2^31 - 1.  A JS    *)
(* integer n is therefore written as the pair <<hi, lo>> with              *)
(* n = hi * 2^16 + lo and 0 <= lo < 2^16 (hi is floor(n / 2^16), so -1 is  *)
(* <<-1, 65535>> and 2^32 is <<65536, 0>>).  The pair is exact: nothing is *)
(* rounded or narrowed unless the code narrows it (&, |, <<, >>>).         *)
(*                                                                         *)
(* Exceptions.  A function that can throw returns a record whose kind is   *)
(* "ok" or the name of the error class that reaches the caller.            *)
(***************************************************************************)
EXTENDS Integers, Sequences, FiniteSets

VARIABLES a, b, out, arrays, held, magRef, powerCache, staticInit

vars == <<a, b, out, arrays, held, magRef, powerCache, staticInit>>

---------------------------------------------------------------------------
(* JS integers as <<hi, lo>> pairs *)

W16 == 2^16

Num(n) == <<n \div W16, n % W16>>

NumAdd(x, y) ==
    LET l == x[2] + y[2] IN <<x[1] + y[1] + (l \div W16), l % W16>>

NumSub(x, y) ==
    LET l == x[2] - y[2] IN <<x[1] - y[1] + (l \div W16), l % W16>>

\* Not-a-number and undefined, as pairs no integer is written as.  NaN is
\* what parseInt returns for no digits and what an array of two or more
\* elements converts to; undefined is what a hole of new Array(n) reads as.
NaN == <<0, -1>>

Undefined == <<0, -2>>

IsNum(x) == x[2] >= 0

\* x < y, x > y, x >= y: false when an operand is NaN or undefined.
NumLt(x, y) ==
    /\ IsNum(x) /\ IsNum(y)
    /\ x[1] < y[1] \/ (x[1] = y[1] /\ x[2] < y[2])

NumGt(x, y) == NumLt(y, x)

NumGe(x, y) == IsNum(x) /\ IsNum(y) /\ ~NumLt(x, y)

NumZero == <<0, 0>>

NumOne == <<0, 1>>

\* 2^j for 0 <= j <= 32.
Pow2Num(j) == IF j < 16 THEN <<0, 2^j>> ELSE <<2^(j - 16), 0>>

\* ToInt32: what the operands of &, | and << are converted to (NaN and
\* undefined to 0).
ToInt32(x) ==
    LET h == x[1] % W16
    IN  IF ~IsNum(x) THEN NumZero
        ELSE <<IF h >= 2^15 THEN h - W16 ELSE h, x[2]>>

\* ToUint32: what the operand of >>> is converted to.
ToUint32(x) == IF ~IsNum(x) THEN NumZero ELSE <<x[1] % W16, x[2]>>

---------------------------------------------------------------------------
(* Constants of the file *)

INT_MASK == <<65535, 65535>>

MAX_INT == <<32767, 65535>>

MIN_INT == <<-32768, 0>>

TWO_32 == NumAdd(INT_MASK, NumOne)

\* The source sets MAX_MAG_LENGTH to 0x80000000 / 32 = 2^26 limbs.  No array
\* of that length can be enumerated, so the limit is scaled down to MagLimit
\* limbs; every comparison against it is kept as the code writes it.
MagLimit == 3

MAX_MAG_LENGTH == MagLimit

MIN_RADIX == 2

MAX_RADIX == 36

---------------------------------------------------------------------------
(* Results of calls *)

NoInstance == [signum |-> 2, mag |-> <<>>, bitLengthPlusOne |-> 0]

Result(kind, msg, val, num, str) ==
    [kind |-> kind, msg |-> msg, val |-> val, num |-> num, str |-> str,
     limbs |-> <<>>]

\* A call that returns an instance, a number, a string.
Ok(v) == Result("ok", "", v, 0, <<>>)

OkNum(n) == Result("ok", "", NoInstance, n, <<>>)

OkStr(s) == Result("ok", "", NoInstance, 0, s)

\* A call that returns an array of numbers.
OkLimbs(m) == [Ok(NoInstance) EXCEPT !.limbs = m]

\* A call that throws an error of class kind with message msg.  The
\* engine's own errors (ReferenceError, TypeError) are given no message.
Throw(kind, msg) == Result(kind, msg, NoInstance, 0, <<>>)

---------------------------------------------------------------------------
(* Limb primitives *)

\* Math.floor(sum / TWO_32)
FloorDivTwo32(x) == Num(x[1] \div W16)

\* x & INT_MASK: both operands become int32 and INT_MASK becomes -1.
AndIntMask(x) == ToInt32(x)

\* n & MAX_INT: the low 31 bits of n.
AndMaxInt(n) == IF ~IsNum(n) THEN NumZero ELSE <<n[1] % 2^15, n[2]>>

\* unsignedLonger throws for n below MIN_INT; otherwise it returns a number.
unsignedLongerThrows(n) == ~NumGe(n, NumZero) /\ NumLt(n, MIN_INT)

unsignedLonger(n) ==
    IF NumGe(n, NumZero) THEN n
    ELSE NumAdd(AndMaxInt(n), Pow2Num(31))

stripKeep(value) ==
    LET vlen == Len(value)
        Lead == {k \in 0..vlen : \A j \in 1..k : value[j] = NumZero}
    IN  CHOOSE k \in Lead : \A m \in Lead : m <= k

\* With trusted set and nothing to strip the code returns the array it was
\* given; otherwise a copy.  Both hold the same limbs.
stripLeadingZeroInts(value, trusted) ==
    IF trusted /\ stripKeep(value) = 0 THEN value
    ELSE SubSeq(value, stripKeep(value) + 1, Len(value))

\* checkRange without its test of the leading limb.
checkRangeLengthOnly(mag) == Len(mag) > MAX_MAG_LENGTH

checkRangeThrows(mag) ==
    \/ Len(mag) > MAX_MAG_LENGTH
    \/ (Len(mag) = MAX_MAG_LENGTH /\ NumLt(mag[1], NumZero))

reportOverflow ==
    Throw("ArithmeticException", "BigInteger would overflow supported range")

\* The sum of the low Len(y) limbs, k limbs done: <<sum, low limbs>>.
\* Each limb stored is sum & INT_MASK; sum keeps its carry for the next.
RECURSIVE addCommon(_, _, _)
addCommon(x, y, k) ==
    IF k = 0 THEN <<NumZero, <<>>>>
    ELSE LET prev == addCommon(x, y, k - 1)
             sum  == NumAdd(NumAdd(unsignedLonger(x[Len(x) - k + 1]),
                                   unsignedLonger(y[Len(y) - k + 1])),
                            FloorDivTwo32(prev[1]))
         IN  <<sum, <<AndIntMask(sum)>> \o prev[2]>>

\* The limbs x[1..i] above the common part: <<limbs, carry left over>>.
\* While the carry lasts a limb is incremented, after that it is copied.
RECURSIVE addCarry(_, _, _)
addCarry(x, i, carry) ==
    IF i = 0 THEN <<<<>>, carry>>
    ELSE IF ~carry THEN <<SubSeq(x, 1, i), FALSE>>
    ELSE LET sum  == NumAdd(unsignedLonger(x[i]), NumOne)
             rest == addCarry(x, i - 1, NumGt(sum, INT_MASK))
         IN  <<Append(rest[1], AndIntMask(sum)), rest[2]>>

addMagnitudes(x0, y0) ==
    LET x == IF Len(x0) < Len(y0) THEN y0 ELSE x0
        y == IF Len(x0) < Len(y0) THEN x0 ELSE y0
        \* yIndex === 1: the sum is stored as it is, not masked
        one == NumAdd(unsignedLonger(x[Len(x)]), unsignedLonger(y[1]))
        low == IF Len(y) = 1 THEN <<one, <<one>>>>
               ELSE addCommon(x, y, Len(y))
        high == addCarry(x, Len(x) - Len(y), NumGt(low[1], INT_MASK))
        result == high[1] \o low[2]
    IN  IF high[2] THEN <<NumOne>> \o result ELSE result

\* The difference of the low Len(little) limbs: <<difference, low limbs>>.
RECURSIVE subtractCommon(_, _, _)
subtractCommon(big, little, k) ==
    IF k = 0 THEN <<NumZero, <<>>>>
    ELSE LET prev == subtractCommon(big, little, k - 1)
             difference ==
                 NumAdd(NumSub(unsignedLonger(big[Len(big) - k + 1]),
                               unsignedLonger(little[Len(little) - k + 1])),
                        FloorDivTwo32(prev[1]))
         IN  <<difference, <<AndIntMask(difference)>> \o prev[2]>>

\* The limbs big[1..i] above the common part, the borrow loop then the copy.
RECURSIVE subtractBorrow(_, _, _)
subtractBorrow(big, i, borrow) ==
    IF i = 0 THEN <<>>
    ELSE IF ~borrow THEN SubSeq(big, 1, i)
    ELSE LET difference == AndIntMask(NumSub(unsignedLonger(big[i]), NumOne))
         IN  Append(subtractBorrow(big, i - 1, difference = Num(-1)),
                    difference)

\* The limbs returned, or <<>> when the code throws its RangeError
\* (see subtractMagnitudesThrows).
subtractMagnitudes(big, little) ==
    LET one == NumSub(unsignedLonger(big[Len(big)]), unsignedLonger(little[1]))
        low == IF Len(little) = 1 THEN <<one, <<AndIntMask(one)>>>>
               ELSE subtractCommon(big, little, Len(little))
        \* borrow = (difference > INT_MASK)
        high == subtractBorrow(big, Len(big) - Len(little),
                               NumGt(low[1], INT_MASK))
    IN  IF Len(big) < Len(little) THEN <<>>
        ELSE stripLeadingZeroInts(high \o low[2], TRUE)

subtractMagnitudesThrows(big, little) == Len(big) < Len(little)

compareMagnitudes(x, y) ==
    LET Diff == {i \in 1..Len(x) : x[i] # y[i]}
        i == CHOOSE j \in Diff : \A m \in Diff : j <= m
    IN  IF Len(x) = Len(y)
        THEN IF Diff = {} THEN 0
             ELSE IF NumLt(unsignedLonger(x[i]), unsignedLonger(y[i]))
                  THEN -1 ELSE 1
        ELSE IF Len(x) < Len(y) THEN -1 ELSE 1

---------------------------------------------------------------------------
(* The BigInteger class *)

\* The constructor passes the array itself as `length` (line 441), and an
\* array of two or more elements converts to NaN, which compares false.
checkFromIndexSizeThrows(fromIndex, size, length) ==
    IF length = NaN THEN fromIndex < 0 \/ size < 0
    ELSE \/ NumLt(length, NumZero) \/ fromIndex < 0 \/ size < 0
         \/ NumGt(Num(size), NumSub(length, Num(fromIndex)))

Instance(signum, mag) ==
    [signum |-> signum, mag |-> mag, bitLengthPlusOne |-> 0]

\* new BigInteger(signum, magnitude)
constructor(signum, magnitude) ==
    LET stripped == stripLeadingZeroInts(magnitude, FALSE) IN
    IF signum < -1 \/ signum > 1
    THEN Throw("NumberFormatException", "Invalid signum value")
    ELSE IF Len(magnitude) <= 1
    THEN IF \/ (Len(magnitude) = 0 /\ signum # 0)
            \/ (Len(magnitude) = 1 /\ signum = 0)
         THEN Throw("NumberFormatException", "Invalid signum value")
         ELSE Ok(Instance(signum, magnitude))
    ELSE IF checkFromIndexSizeThrows(0, Len(magnitude), NaN)
    THEN Throw("RangeError", "Accessing array outside of bounds.")
    \* line 444 calls the error class without `new`: a TypeError
    ELSE IF \E i \in 1..Len(magnitude) :
                NumGt(magnitude[i], MAX_INT) \/ NumLt(magnitude[i], MIN_INT)
    THEN Throw("TypeError", "")
    ELSE IF Len(stripped) # 0 /\ signum = 0
    THEN Throw("NumberFormatException", "signum-magnitude mismatch")
    ELSE IF Len(stripped) >= MAX_MAG_LENGTH /\ checkRangeThrows(stripped)
    THEN reportOverflow
    ELSE Ok(Instance(IF Len(stripped) = 0 THEN 0 ELSE signum, stripped))

\* The identifier ZERO (lines 509, 586, 622) is declared nowhere in the
\* file: the constant is the variable _ZERO, read through the static getter
\* BigInteger.ZERO.  Reading the bare name throws.
ZERO == Throw("ReferenceError", "")

negate(this) ==
    IF this.signum = 0 THEN Ok(this)
    ELSE constructor(-this.signum, this.mag)

abs(this) == IF this.signum < 0 THEN negate(this) ELSE Ok(this)

\* #addBigInteger giving a difference the sign of `this`.
addBigIntegerSignOfThis(this, val) ==
    LET cmp == compareMagnitudes(this.mag, val.mag)
        big == IF cmp > 0 THEN this.mag ELSE val.mag
        little == IF cmp > 0 THEN val.mag ELSE this.mag
    IN  IF val.signum = 0 THEN Ok(this)
        ELSE IF this.signum = 0 THEN Ok(val)
        ELSE IF this.signum = val.signum
        THEN constructor(this.signum, addMagnitudes(this.mag, val.mag))
        ELSE IF cmp = 0 THEN ZERO
        ELSE IF subtractMagnitudesThrows(big, little)
        THEN Throw("RangeError", "big array must be longer than little array")
        ELSE constructor(this.signum, subtractMagnitudes(big, little))

addBigInteger(this, val) ==
    LET cmp == compareMagnitudes(this.mag, val.mag)
        big == IF cmp > 0 THEN this.mag ELSE val.mag
        little == IF cmp > 0 THEN val.mag ELSE this.mag
    IN  IF val.signum = 0 THEN Ok(this)
        ELSE IF this.signum = 0 THEN Ok(val)
        ELSE IF this.signum = val.signum
        THEN constructor(this.signum, addMagnitudes(this.mag, val.mag))
        ELSE IF cmp = 0 THEN ZERO
        ELSE IF subtractMagnitudesThrows(big, little)
        THEN Throw("RangeError", "big array must be longer than little array")
        ELSE constructor(cmp * this.signum, subtractMagnitudes(big, little))

\* #subtractBigInteger giving a difference the sign of `this`.
subtractBigIntegerSignOfThis(this, val) ==
    LET cmp == compareMagnitudes(this.mag, val.mag)
        big == IF cmp > 0 THEN this.mag ELSE val.mag
        little == IF cmp > 0 THEN val.mag ELSE this.mag
    IN  IF val.signum = 0 THEN Ok(this)
        ELSE IF this.signum = 0 THEN negate(val)
        ELSE IF this.signum # val.signum
        THEN constructor(this.signum, addMagnitudes(this.mag, val.mag))
        ELSE IF cmp = 0 THEN ZERO
        ELSE IF subtractMagnitudesThrows(big, little)
        THEN Throw("RangeError", "big array must be longer than little array")
        ELSE constructor(this.signum, subtractMagnitudes(big, little))

subtractBigInteger(this, val) ==
    LET cmp == compareMagnitudes(this.mag, val.mag)
        big == IF cmp > 0 THEN this.mag ELSE val.mag
        little == IF cmp > 0 THEN val.mag ELSE this.mag
    IN  IF val.signum = 0 THEN Ok(this)
        ELSE IF this.signum = 0 THEN negate(val)
        ELSE IF this.signum # val.signum
        THEN constructor(this.signum, addMagnitudes(this.mag, val.mag))
        ELSE IF cmp = 0 THEN ZERO
        ELSE IF subtractMagnitudesThrows(big, little)
        THEN Throw("RangeError", "big array must be longer than little array")
        ELSE constructor(IF cmp = this.signum THEN 1 ELSE -1,
                         subtractMagnitudes(big, little))

\* add and subtract called with a BigInteger argument
add(this, val) == addBigInteger(this, val)

subtract(this, val) == subtractBigInteger(this, val)

\* The number of binary digits of k >= 0, "0" having one.
RECURSIVE binaryDigits16(_)
binaryDigits16(k) == IF k < 2 THEN 1 ELSE 1 + binaryDigits16(k \div 2)

\* (n | 0).toString(2).length: the digits of |n|, and a "-" when n < 0.
toString2Length(n) ==
    LET v == ToInt32(n)
        m == IF NumLt(v, NumZero) THEN NumSub(NumZero, v) ELSE v
        digits == IF m[1] > 0 THEN 16 + binaryDigits16(m[1])
                  ELSE binaryDigits16(m[2])
    IN  IF NumLt(v, NumZero) THEN digits + 1 ELSE digits

bitLengthForInt(n) == 32 - toString2Length(n)

\* bitLength(): the result and the instance with its cache field as the call
\* leaves it.  Line 701 reads `signum`, which no scope declares (the field is
\* this.#signum), so a non-empty magnitude ends in a ReferenceError after
\* magBitLength is computed, and lines 702 to 710 are never reached.
bitLength(this) ==
    LET n == this.bitLengthPlusOne - 1
        len == Len(this.mag)
        magBitLength == ((len - 1) * 32) + bitLengthForInt(this.mag[1])
    IN  IF n # -1 THEN [res |-> OkNum(n), this |-> this]
        ELSE IF len = 0
        THEN [res |-> OkNum(0), this |-> [this EXCEPT !.bitLengthPlusOne = 1]]
        ELSE IF magBitLength = magBitLength
        THEN [res |-> Throw("ReferenceError", ""), this |-> this]
        ELSE [res |-> OkNum(magBitLength), this |-> this]

\* toString(radix): line 733 reads the undeclared `signum` first.
toString(this, radix) == Throw("ReferenceError", "")

---------------------------------------------------------------------------
(* Constants and the radix cache *)

MAX_CONSTANT == 16

\* BigInteger.valueOf(n).  Line 560 returns ZERO; lines 562 and 564 index
\* posConst and negConst with `val`, a name no scope declares, and one of
\* the two is reached for every other n, so that lines 566 to 571 are dead.
valueOf(n) ==
    IF n = 0 THEN ZERO
    ELSE IF n > 0 /\ n <= MAX_CONSTANT THEN Throw("ReferenceError", "")
    ELSE Throw("ReferenceError", "")

\* pow(n): the body is empty, the call returns undefined.
pow(this, n) == Ok(NoInstance)

CacheLine(line) == [present |-> TRUE, line |-> line]

\* The first call of the static initializer that throws, in the order of
\* lines 409 to 418, or Ok when none does.
staticInitializerThrows ==
    LET Calls ==
            [i \in 1..(2 * MAX_CONSTANT) |->
                IF i % 2 = 1 THEN constructor(1, <<Num((i + 1) \div 2)>>)
                ELSE constructor(-1, <<Num(i \div 2)>>)]
            \o <<constructor(0, <<>>), valueOf(1), valueOf(2), valueOf(-1),
                 valueOf(10),
                 constructor(1, <<Num(35419), <<25712, 44949>>>>)>>
        Thrown == {i \in 1..Len(Calls) : Calls[i].kind # "ok"}
    IN  IF Thrown = {} THEN Ok(NoInstance)
        ELSE Calls[CHOOSE i \in Thrown : \A j \in Thrown : i <= j]

\* The static initializer of the class (lines 408 to 423): what it throws,
\* and powerCache as it leaves it.  The loop of line 419 stops before
\* MAX_RADIX.
staticInitializer(cache) ==
    IF staticInitializerThrows.kind # "ok"
    THEN [res |-> staticInitializerThrows, powerCache |-> cache]
    ELSE [res |-> Ok(NoInstance),
          powerCache |->
              [radix \in DOMAIN cache |->
                  IF radix >= MIN_RADIX /\ radix < MAX_RADIX
                  THEN CacheLine(<<constructor(1, <<Num(radix)>>).val>>)
                  ELSE cache[radix]]]

\* The loop of lines 370 to 372 from index i (counted from 0) on the array
\* cacheLine: pow returns undefined, which is stored, and the step after it
\* calls pow on undefined.
RECURSIVE growCacheLine(_, _, _)
growCacheLine(cacheLine, i, length) ==
    IF i >= length THEN [throws |-> FALSE, line |-> cacheLine]
    ELSE IF i = 0 \/ cacheLine[i] = NoInstance
    THEN [throws |-> TRUE, line |-> cacheLine]
    ELSE growCacheLine(Append(cacheLine, pow(cacheLine[i], 2).val), i + 1,
                       length)

\* getRadixConversionCache(radix, exponent): what it returns or throws, and
\* powerCache as it leaves it.  Line 368 assigns to newCacheLine, which no
\* scope declares: strict code throws there, other code makes a global.  The
\* loop writes to cacheLine, the array in powerCache, so that line 374 finds
\* it long enough and keeps it.
getRadixConversionCache(cache, radix, exponent, strict) ==
    LET cacheLine == cache[radix].line
        grown == growCacheLine(cacheLine, Len(cacheLine), exponent + 1)
        after == [cache EXCEPT ![radix] = CacheLine(grown.line)]
    IN  IF ~cache[radix].present
        THEN [res |-> Throw("TypeError", ""), powerCache |-> cache]
        ELSE IF exponent < Len(cacheLine)
        THEN [res |-> Ok(cacheLine[exponent + 1]), powerCache |-> cache]
        ELSE IF strict
        THEN [res |-> Throw("ReferenceError", ""), powerCache |-> cache]
        ELSE IF grown.throws
        THEN [res |-> Throw("TypeError", ""), powerCache |-> after]
        ELSE [res |-> Ok(grown.line[exponent + 1]), powerCache |-> after]

---------------------------------------------------------------------------
(* Radix conversion.  A string is a sequence of one-character strings. *)

bitsPerDigit ==
    <<0, 0,
      1024, 1624, 2048, 2378, 2648, 2875, 3072, 3247, 3402, 3543, 3672,
      3790, 3899, 4001, 4096, 4186, 4271, 4350, 4426, 4498, 4567, 4633,
      4696, 4756, 4814, 4870, 4923, 4975, 5025, 5074, 5120, 5166, 5210,
      5253, 5295>>

digitsPerInt ==
    <<0, 0, 30, 19, 15, 13, 11,
      11, 10, 9, 9, 8, 8, 8, 8, 7, 7, 7, 7, 7, 7, 7, 6, 6, 6, 6,
      6, 6, 6, 6, 6, 6, 6, 6, 6, 6, 5>>

\* intRadix, in decimal
intRadix ==
    <<0, 0,
      1073741824, 1162261467, 1073741824, 1220703125, 362797056,
      1977326743, 1073741824, 387420489, 1000000000, 214358881,
      429981696, 815730721, 1475789056, 170859375, 268435456,
      410338673, 612220032, 893871739, 1280000000, 1801088541,
      113379904, 148035889, 191102976, 244140625, 308915776,
      387420489, 481890304, 594823321, 729000000, 887503681,
      1073741824, 1291467969, 1544804416, 1838265625, 60466176>>

\* p * q for 0 <= p, q < 2^16, which passes 2^31.
Mul16(p, q) ==
    LET high == (p \div 2^8) * q
    IN  NumAdd(<<high \div 2^8, (high % 2^8) * 2^8>>, Num((p % 2^8) * q))

\* multiplyCarryInt(a, b, carry): the pair [p32, p1 << 16 | p0]
multiplyCarryInt(a_, b_, carry) ==
    LET al == ToInt32(a_)[2]
        ah == ToUint32(a_)[1]
        bl == ToInt32(b_)[2]
        bh == ToUint32(b_)[1]
        blal == Mul16(bl, al)
        blah == Mul16(bl, ah)
        bhal == Mul16(bh, al)
        bhah == Mul16(bh, ah)
        p0 == NumAdd(blal, carry)
        p1 == NumAdd(NumAdd(blah, bhal), <<0, ToUint32(p0)[1]>>)
        p32 == NumAdd(bhah, <<0, ToUint32(p1)[1]>>)
    IN  <<p32, ToInt32(<<p1[2], p0[2]>>)>>

\* The multiplication loop of destructiveMulAdd over the last k limbs:
\* <<carry, limbs>>.
RECURSIVE mulLimbs(_, _, _)
mulLimbs(x, y, k) ==
    IF k = 0 THEN <<NumZero, <<>>>>
    ELSE LET prev == mulLimbs(x, y, k - 1)
             r == multiplyCarryInt(y, x[Len(x) - k + 1], prev[1])
         IN  <<r[1], <<r[2]>> \o prev[2]>>

\* The addition loop of destructiveMulAdd over the last k limbs, the first
\* step adding z and the later ones the carry: <<carry, limbs>>.
RECURSIVE addLimbs(_, _, _)
addLimbs(x, z, k) ==
    IF k = 0 THEN <<z, <<>>>>
    ELSE LET prev == addLimbs(x, z, k - 1)
             sum == NumAdd(unsignedLonger(x[Len(x) - k + 1]),
                           IF k = 1 THEN unsignedLonger(z) ELSE prev[1])
         IN  <<FloorDivTwo32(sum), <<AndIntMask(sum)>> \o prev[2]>>

\* destructiveMulAdd(x, y, z): the limbs x holds afterwards
destructiveMulAdd(x, y, z) ==
    addLimbs(mulLimbs(x, y, Len(x))[2], z, Len(x))[2]

Digits ==
    <<"0", "1", "2", "3", "4", "5", "6", "7", "8", "9", "a", "b", "c", "d",
      "e", "f", "g", "h", "i", "j", "k", "l", "m", "n", "o", "p", "q", "r",
      "s", "t", "u", "v", "w", "x", "y", "z">>

\* The value of a digit character, -1 for any other character.
digitValue(c) ==
    IF \E i \in 1..Len(Digits) : Digits[i] = c
    THEN (CHOOSE i \in 1..Len(Digits) : Digits[i] = c) - 1
    ELSE -1

RECURSIVE digitsValue(_, _, _)
digitsValue(s, n, radix) ==
    IF n = 0 THEN 0
    ELSE digitsValue(s, n - 1, radix) * radix + digitValue(s[n])

\* Number.parseInt(s, radix) for s without a sign or white space: the value
\* of the longest prefix of digits legal in radix, NaN when there is none.
parseInt(s, radix) ==
    LET Legal == {n \in 0..Len(s) :
                     \A i \in 1..n : digitValue(s[i]) \in 0..(radix - 1)}
        n == CHOOSE k \in Legal : \A m \in Legal : m <= k
    IN  IF n = 0 THEN NaN ELSE Num(digitsValue(s, n, radix))

\* s.lastIndexOf(c), counted from 0, -1 when c is not in s
lastIndexOf(s, c) ==
    LET At == {i \in 1..Len(s) : s[i] = c}
    IN  IF At = {} THEN -1 ELSE (CHOOSE i \in At : \A j \in At : j <= i) - 1

\* s.indexOf(c)
indexOf(s, c) ==
    LET At == {i \in 1..Len(s) : s[i] = c}
    IN  IF At = {} THEN -1 ELSE (CHOOSE i \in At : \A j \in At : i <= j) - 1

\* The sign check with the first index of each sign in place of the last.
fromStringSignFirstIndex(value) ==
    LET index1 == indexOf(value, "-")
        index2 == indexOf(value, "+")
    IN  IF index1 >= 0
        THEN [throws |-> index1 # 0 \/ index2 >= 0, sign |-> -1, cursor |-> 1]
        ELSE IF index2 >= 0
        THEN [throws |-> index2 # 0, sign |-> 1, cursor |-> 1]
        ELSE [throws |-> FALSE, sign |-> 1, cursor |-> 0]

\* fromString's check for at most one leading sign: whether it throws, and
\* the sign and cursor it leaves.
fromStringSign(value) ==
    LET index1 == lastIndexOf(value, "-")
        index2 == lastIndexOf(value, "+")
    IN  IF index1 >= 0
        THEN [throws |-> index1 # 0 \/ index2 >= 0, sign |-> -1, cursor |-> 1]
        ELSE IF index2 >= 0
        THEN [throws |-> index2 # 0, sign |-> 1, cursor |-> 1]
        ELSE [throws |-> FALSE, sign |-> 1, cursor |-> 0]

\* fromString's loop over leading zeros: the cursor it leaves.
RECURSIVE skipLeadingZeros(_, _, _)
skipLeadingZeros(value, radix, cursor) ==
    IF cursor < Len(value) /\ parseInt(<<value[cursor + 1]>>, radix) = NumZero
    THEN skipLeadingZeros(value, radix, cursor + 1)
    ELSE cursor

\* value.substring(from, to)
substring(value, from, to) ==
    SubSeq(value, from + 1, IF to < Len(value) THEN to ELSE Len(value))

\* fromString's loop over the remaining digit groups: whether it throws, and
\* the limbs of magnitude.
RECURSIVE remainingGroups(_, _, _, _)
remainingGroups(value, radix, cursor, magnitude) ==
    LET groupVal ==
            parseInt(substring(value, cursor, cursor + digitsPerInt[radix + 1]),
                     radix)
    IN  IF cursor >= Len(value) THEN [throws |-> FALSE, magnitude |-> magnitude]
        ELSE IF NumLt(groupVal, NumZero)
        THEN [throws |-> TRUE, magnitude |-> magnitude]
        ELSE remainingGroups(value, radix, cursor + digitsPerInt[radix + 1],
                 destructiveMulAdd(magnitude, Num(intRadix[radix + 1]),
                                   groupVal))

\* The right-hand side of an assignment or the arguments of a call are
\* evaluated before the name they go to is found missing.
Evaluated(v) == v = v

\* BigInteger.fromString(value, radix).  Line 541 assigns to `mag`, which no
\* scope declares; a class body is strict code, where that throws, so lines
\* 542 to 545 are never reached (and they return nothing).
fromString(value, radix) ==
    LET len == Len(value)
        signed == fromStringSign(value)
        cursor == skipLeadingZeros(value, radix, signed.cursor)
        numDigits == len - cursor
        numBits == ((numDigits * bitsPerDigit[radix + 1]) \div 2^10) + 1
        numWords == (numBits + 31) \div 2^5
        rest == numDigits % digitsPerInt[radix + 1]
        firstGroupLen == IF rest = 0 THEN digitsPerInt[radix + 1] ELSE rest
        first == parseInt(substring(value, cursor, cursor + firstGroupLen),
                          radix)
        magnitude == [i \in 1..numWords |->
                         IF i = numWords THEN first ELSE Undefined]
        groups == remainingGroups(value, radix, cursor + firstGroupLen,
                                  magnitude)
    IN  IF radix < MIN_RADIX \/ radix > MAX_RADIX
        THEN Throw("RangeError", "Radix out of range")
        ELSE IF len = 0
        THEN Throw("NumberFormatException", "Zero length BigInteger")
        ELSE IF signed.throws
        THEN Throw("NumberFormatException", "Illegal embedded sign character")
        ELSE IF signed.cursor = len
        THEN Throw("NumberFormatException", "Zero length BigInteger")
        ELSE IF cursor = len
        THEN IF ZERO.kind = "ok" THEN constructor(0, ZERO.val.mag) ELSE ZERO
        ELSE IF NumGe(Num(numBits + 31), TWO_32) THEN reportOverflow
        ELSE IF NumLt(first, NumZero)
        THEN Throw("NumberFormatException", "Illegal digit")
        ELSE IF groups.throws
        THEN Throw("NumberFormatException", "Illegal digit")
        ELSE IF Evaluated(stripLeadingZeroInts(groups.magnitude, TRUE))
        THEN Throw("ReferenceError", "")
        ELSE Throw("ReferenceError", "")

\* The client's expression BigInteger.fromString(value, radix).toString(radix)
fromStringToString(value, radix) ==
    IF fromString(value, radix).kind = "ok"
    THEN toString(fromString(value, radix).val, radix)
    ELSE fromString(value, radix)

---------------------------------------------------------------------------
(* Random generation *)

\* 1 << n: the shift count is taken modulo 32 and the result is an int32.
shiftLeftOne(n) == ToInt32(Pow2Num(n % 32))

\* x & m for a mask m whose int32 value is 2^w - 1: the low w bits of x.
AndLowBitsMask(x, m) ==
    LET w == CHOOSE k \in 0..31 : ToInt32(m) = NumSub(Pow2Num(k), NumOne)
    IN  IF w >= 16 THEN <<(x[1] % W16) % 2^(w - 16), x[2]>>
        ELSE <<0, x[2] % 2^w>>

randomBitsThrows(numBits) == numBits < 0

\* randomBits(numBits), entropy being the limbs getRandomValues writes into
\* the Uint32Array of numInts elements.  Which object supplies them (line
\* 237) is the host's business.
randomBits(numBits, entropy) ==
    LET numInts == (numBits + 31) \div 32
        excessBits == 32 * numInts - numBits
        mask == NumSub(shiftLeftOne(32 - excessBits), NumOne)
    IN  IF numInts > 0
        THEN <<ToUint32(AndLowBitsMask(entropy[1], mask))>> \o Tail(entropy)
        ELSE <<>>

\* mag[b] & 0xff
LowByte(x) == x[2] % 2^8

\* One element of the result: up to four bytes, the last one lowest, joined
\* by | and <<, which leave an int32.
packBytes(bytes) ==
    LET n == Len(bytes)
        At(t) == IF t < n THEN bytes[n - t] ELSE 0
    IN  ToInt32(<<At(3) * 2^8 + At(2), At(1) * 2^8 + At(0)>>)

RECURSIVE packInts(_)
packInts(bytes) ==
    IF Len(bytes) = 0 THEN <<>>
    ELSE IF Len(bytes) <= 4 THEN <<packBytes(bytes)>>
    ELSE Append(packInts(SubSeq(bytes, 1, Len(bytes) - 4)),
                packBytes(SubSeq(bytes, Len(bytes) - 3, Len(bytes))))

\* stripLeadingZeroBytes(mag, offset, length): mag is read as an array of
\* bytes, one per element.
stripLeadingZeroBytes(mag, offset, length) ==
    LET indexBound == offset + length
        Zero == {k \in offset..indexBound :
                    \A j \in offset..(k - 1) : mag[j + 1] = NumZero}
        keep == CHOOSE k \in Zero : \A m \in Zero : m <= k
        bytes == [j \in 1..(indexBound - keep) |-> LowByte(mag[keep + j])]
    IN  packInts(bytes)

\* BigInteger.randomValue(numBits).  Line 555 calls checkRange without its
\* argument, and checkRange reads the length of it.
randomValue(numBits, entropy) ==
    LET bits == randomBits(numBits, entropy)
        magnitude == stripLeadingZeroBytes(bits, 0, Len(bits))
        signum == IF Len(magnitude) = 0 THEN 0 ELSE 1
    IN  IF randomBitsThrows(numBits)
        THEN Throw("RangeError", "numBits myst be non-negative")
        ELSE IF Len(magnitude) >= MAX_MAG_LENGTH THEN Throw("TypeError", "")
        ELSE constructor(signum, magnitude)

---------------------------------------------------------------------------
(* Inputs the client draws from *)

\* Limbs: zero, one, all ones as the int32 the code computes with (-1) and
\* all ones as an unsigned value (2^32 - 1).
Limbs == {Num(0), Num(1), Num(-1), INT_MASK}

MaxLen == MAX_MAG_LENGTH + 1

SeqsUpTo(S, n) == UNION {[1..k -> S] : k \in 0..n}

MagInputs == SeqsUpTo(Limbs, MaxLen)

Signums == {-1, 0, 1, 2}

Radixes == {MIN_RADIX - 1, 10, MAX_RADIX, MAX_RADIX + 1}

\* A sign of each kind, a zero, a digit of every radix, a digit of radix 36
\* alone, and a character that is no digit.
Alphabet == {"+", "-", "0", "1", "z", "!"}

MaxTextLen == 3

\* Strings of "1" long enough for two digit groups in radix 36, with one
\* character replaced.
LongTexts ==
    {[i \in 1..n |-> IF i = at THEN c ELSE "1"] :
        n \in {digitsPerInt[MAX_RADIX + 1] + 1, digitsPerInt[MAX_RADIX + 1] + 2},
        at \in 1..(digitsPerInt[MAX_RADIX + 1] + 2),
        c \in Alphabet}

Texts == SeqsUpTo(Alphabet, MaxTextLen) \cup LongTexts

\* Limbs of entropy: zero, one, a value with an empty low byte, all ones.
EntropyLimbs == {Num(0), Num(1), Num(256), INT_MASK}

MaxBits == 129

NumBitsInputs == -1..MaxBits

EntropyInputs(numBits) ==
    IF numBits < 0 THEN {<<>>}
    ELSE [1..((numBits + 31) \div 32) -> EntropyLimbs]

---------------------------------------------------------------------------
(* The client: two registers a and b for the instances it holds, and out,  *)
(* the call it made last with what came back.  An exception ends it.       *)

NoCall == [op |-> "none", args |-> <<>>, res |-> Ok(NoInstance)]

Call(op, args, res) == [op |-> op, args |-> args, res |-> res]

Idle == out = NoCall

\* arrays is the heap of limb arrays, an array being known by its index;
\* held, the arrays the client has a reference to; magRef, the array that
\* is the #mag of the instance in a and of the one in b (0: no instance).
heapVars == <<arrays, held, magRef>>

\* A slot of powerCache that nothing was stored in.
NoCacheLine == [present |-> FALSE, line |-> <<>>]

\* powerCache is the array of line 63, one slot for each index 0..MAX_RADIX;
\* staticInit, how far the static initializer of the class has got.
cacheVars == <<powerCache, staticInit>>

Init ==
    /\ a = NoInstance /\ b = NoInstance /\ out = NoCall
    /\ arrays = <<>> /\ held = {} /\ magRef = <<0, 0>>
    /\ powerCache = [radix \in 0..MAX_RADIX |-> NoCacheLine]
    /\ staticInit = "pending"

\* new BigInteger(signum, magnitude)
Construct ==
    /\ Idle
    /\ b = NoInstance
    /\ \E signum \in Signums, magnitude \in MagInputs :
          out' = Call("new", <<signum, magnitude>>,
                      constructor(signum, magnitude))
    /\ UNCHANGED <<a, b>>
    /\ UNCHANGED <<heapVars, cacheVars>>

\* The client keeps the instance a factory returned.
Bind ==
    /\ out.op \in {"new", "randomValue"}
    /\ out.res.kind = "ok"
    /\ IF a = NoInstance
       THEN a' = out.res.val /\ UNCHANGED b
       ELSE b' = out.res.val /\ UNCHANGED a
    /\ out' = NoCall
    /\ UNCHANGED <<heapVars, cacheVars>>

\* BigInteger.randomValue(numBits), the first instance the client makes
RandomValue ==
    /\ Idle
    /\ a = NoInstance
    /\ \E numBits \in NumBitsInputs :
          \E entropy \in EntropyInputs(numBits) :
              out' = Call("randomValue", <<numBits, entropy>>,
                          randomValue(numBits, entropy))
    /\ UNCHANGED <<a, b>>
    /\ UNCHANGED <<heapVars, cacheVars>>

Negate ==
    /\ Idle /\ a # NoInstance
    /\ out' = Call("negate", <<>>, negate(a))
    /\ UNCHANGED <<a, b>>
    /\ UNCHANGED <<heapVars, cacheVars>>

Abs ==
    /\ Idle /\ a # NoInstance
    /\ out' = Call("abs", <<>>, abs(a))
    /\ UNCHANGED <<a, b>>
    /\ UNCHANGED <<heapVars, cacheVars>>

Add ==
    /\ Idle /\ a # NoInstance /\ b # NoInstance
    /\ out' = Call("add", <<>>, add(a, b))
    /\ UNCHANGED <<a, b>>
    /\ UNCHANGED <<heapVars, cacheVars>>

Subtract ==
    /\ Idle /\ a # NoInstance /\ b # NoInstance
    /\ out' = Call("subtract", <<>>, subtract(a, b))
    /\ UNCHANGED <<a, b>>
    /\ UNCHANGED <<heapVars, cacheVars>>

BitLength ==
    /\ Idle /\ a # NoInstance
    /\ out' = Call("bitLength", <<>>, bitLength(a).res)
    /\ a' = bitLength(a).this
    /\ UNCHANGED b
    /\ UNCHANGED <<heapVars, cacheVars>>

ToString ==
    /\ Idle /\ a # NoInstance
    /\ \E radix \in Radixes :
          out' = Call("toString", <<radix>>, toString(a, radix))
    /\ UNCHANGED <<a, b>>
    /\ UNCHANGED <<heapVars, cacheVars>>

\* BigInteger.fromString(value, radix)
FromString ==
    /\ Idle
    /\ a = NoInstance
    /\ \E value \in Texts, radix \in Radixes :
          out' = Call("fromString", <<value, radix>>, fromString(value, radix))
    /\ UNCHANGED <<a, b>>
    /\ UNCHANGED <<heapVars, cacheVars>>

\* BigInteger.fromString(value, radix).toString(radix)
RoundTrip ==
    /\ Idle
    /\ a = NoInstance
    /\ \E value \in Texts, radix \in Radixes :
          out' = Call("fromString.toString", <<value, radix>>,
                      fromStringToString(value, radix))
    /\ UNCHANGED <<a, b>>
    /\ UNCHANGED <<heapVars, cacheVars>>

\* The client drops the value a method returned and goes on.
Return ==
    /\ out.op \in {"negate", "abs", "add", "subtract", "bitLength", "toString"}
    /\ out.res.kind = "ok"
    /\ out' = NoCall
    /\ UNCHANGED <<a, b>>
    /\ UNCHANGED <<heapVars, cacheVars>>

Next ==
    \/ Construct \/ Bind \/ Negate \/ Abs \/ Add \/ Subtract
    \/ BitLength \/ ToString \/ Return

Spec == Init /\ [][Next]_vars

\* The client that draws a random instance.
NextRandom == RandomValue \/ Bind

SpecRandom == Init /\ [][NextRandom]_vars

\* The client that parses a numeral, and prints what it parsed.
NextParse == FromString \/ RoundTrip

SpecParse == Init /\ [][NextParse]_vars

---------------------------------------------------------------------------
(* The client that keeps the arrays it hands over and is handed.  The      *)
(* registers a and b show the instance as it reads now: its #mag is the    *)
(* array magRef names, so a write to that array is a write to the          *)
(* instance.                                                               *)

MaxArrays == 4

MaxAliasLen == 2

AliasLimbs == {NumZero, NumOne}

AliasMags == SeqsUpTo(AliasLimbs, MaxAliasLen)

\* Lines 433 to 439: an array of at most one limb becomes #mag itself.
\* Line 448: a longer one goes through stripLeadingZeroInts(magnitude), whose
\* trusted is false, so that #mag is the new array slice returns.
constructorKeepsArray(magnitude) == Len(magnitude) <= 1

\* The heap after new BigInteger(signum, arrays[ref]) returned.
heapAfterNew(ref) ==
    IF constructorKeepsArray(arrays[ref]) THEN arrays
    ELSE Append(arrays, stripLeadingZeroInts(arrays[ref], FALSE))

\* The array that is #mag of the instance new BigInteger(signum,
\* arrays[ref]) returned.
magOfNew(ref) ==
    IF constructorKeepsArray(arrays[ref]) THEN ref ELSE Len(arrays) + 1

\* The instance in a register, read again after a write to the heap.
Reread(instance, ref, heap) ==
    IF instance = NoInstance THEN instance
    ELSE [instance EXCEPT !.mag = heap[ref]]

\* m = [...]; new BigInteger(signum, m), the client keeping m and the
\* instance.
NewFromArray ==
    /\ b = NoInstance
    /\ Len(arrays) + 2 <= MaxArrays
    /\ \E signum \in {-1, 0, 1}, m \in AliasMags :
          LET ref == Len(arrays) + 1
              heap == Append(arrays, m)
              res == constructor(signum, m)
              own == IF constructorKeepsArray(m) THEN ref ELSE ref + 1
          IN  /\ out' = Call("new", <<signum, m>>, res)
              /\ held' = held \cup {ref}
              /\ IF res.kind # "ok"
                 THEN arrays' = heap /\ UNCHANGED <<a, b, magRef>>
                 ELSE /\ arrays' = IF constructorKeepsArray(m) THEN heap
                                   ELSE Append(heap, res.val.mag)
                      /\ IF a = NoInstance
                         THEN /\ a' = res.val
                              /\ magRef' = <<own, magRef[2]>>
                              /\ UNCHANGED b
                         ELSE /\ b' = res.val
                              /\ magRef' = <<magRef[1], own>>
                              /\ UNCHANGED a
    /\ UNCHANGED cacheVars

\* m = a.mag (line 466): the getter returns #mag itself.
GetMag ==
    /\ a # NoInstance
    /\ magRef[1] \notin held
    /\ held' = held \cup {magRef[1]}
    /\ out' = Call("mag", <<>>, Ok(a))
    /\ UNCHANGED <<a, b, arrays, magRef, cacheVars>>

\* m[i] = v, on an array the client holds.
WriteArray ==
    /\ \E ref \in held :
          \E i \in 1..Len(arrays[ref]), v \in AliasLimbs :
              LET heap == [arrays EXCEPT ![ref][i] = v]
              IN  /\ arrays[ref][i] # v
                  /\ arrays' = heap
                  /\ a' = Reread(a, magRef[1], heap)
                  /\ b' = Reread(b, magRef[2], heap)
                  /\ out' = Call("write", <<ref, i, v>>, Ok(NoInstance))
    /\ UNCHANGED <<held, magRef, cacheVars>>

\* b = a.negate() (lines 672 to 675): a itself for zero, else
\* new BigInteger(-signum, #mag) on the array that is a's #mag.
NegateInto ==
    /\ a # NoInstance
    /\ b = NoInstance
    /\ Len(arrays) < MaxArrays
    /\ out' = Call("negate", <<>>, negate(a))
    /\ IF negate(a).kind # "ok"
       THEN UNCHANGED <<a, b, arrays, magRef>>
       ELSE /\ b' = negate(a).val
            /\ arrays' = IF a.signum = 0 THEN arrays
                         ELSE heapAfterNew(magRef[1])
            /\ magRef' = <<magRef[1],
                           IF a.signum = 0 THEN magRef[1]
                           ELSE magOfNew(magRef[1])>>
            /\ UNCHANGED a
    /\ UNCHANGED <<held, cacheVars>>

NextAlias == NewFromArray \/ GetMag \/ WriteArray \/ NegateInto

SpecAlias == Init /\ [][NextAlias]_vars

---------------------------------------------------------------------------
(* The limb functions called on their own *)

\* Unsigned 32-bit limbs: 0, 1, 2^31, 2^32 - 1.
Uint32Limbs == {NumZero, NumOne, Pow2Num(31), INT_MASK}

MaxLimbLen == 3

LimbSeqs == SeqsUpTo(Uint32Limbs, MaxLimbLen)

\* addMagnitudes(x, y)
AddMagnitudes ==
    /\ Idle
    /\ \E x \in LimbSeqs \ {<<>>}, y \in LimbSeqs \ {<<>>} :
          out' = Call("addMagnitudes", <<x, y>>, OkLimbs(addMagnitudes(x, y)))
    /\ UNCHANGED <<a, b, heapVars, cacheVars>>

\* subtractMagnitudes(big, little)
SubtractMagnitudes ==
    /\ Idle
    /\ \E big \in LimbSeqs, little \in LimbSeqs :
          out' = Call("subtractMagnitudes", <<big, little>>,
                      IF subtractMagnitudesThrows(big, little)
                      THEN Throw("RangeError",
                                 "big array must be longer than little array")
                      ELSE OkLimbs(subtractMagnitudes(big, little)))
    /\ UNCHANGED <<a, b, heapVars, cacheVars>>

\* Unsigned 32-bit words: 0, 1, 2^16 - 1, 2^16, 10^9, 2^31, 2^32 - 1.
MulWords ==
    {NumZero, NumOne, <<0, 65535>>, <<1, 0>>, Num(intRadix[11]), Pow2Num(31),
     INT_MASK}

\* multiplyCarryInt(a, b, carry)
MultiplyCarryInt ==
    /\ Idle
    /\ \E a_ \in MulWords, b_ \in MulWords, carry \in MulWords :
          out' = Call("multiplyCarryInt", <<a_, b_, carry>>,
                      OkLimbs(multiplyCarryInt(a_, b_, carry)))
    /\ UNCHANGED <<a, b, heapVars, cacheVars>>

NextLimbs == AddMagnitudes \/ SubtractMagnitudes \/ MultiplyCarryInt

SpecLimbs == Init /\ [][NextLimbs]_vars

---------------------------------------------------------------------------
(* The radix cache, from the loading of the class on *)

MaxExponent == 2

CacheRadixes == MIN_RADIX..MAX_RADIX

\* The class is evaluated: its static initializer runs, once.
StaticInit ==
    /\ staticInit = "pending"
    /\ out' = Call("static", <<>>, staticInitializer(powerCache).res)
    /\ powerCache' = staticInitializer(powerCache).powerCache
    /\ staticInit' = IF staticInitializer(powerCache).res.kind = "ok"
                     THEN "done" ELSE "threw"
    /\ UNCHANGED <<a, b, heapVars>>

\* getRadixConversionCache(radix, exponent)
GetRadixConversionCache ==
    /\ staticInit # "pending"
    /\ \E radix \in CacheRadixes, exponent \in 0..MaxExponent,
          strict \in BOOLEAN :
          LET call == getRadixConversionCache(powerCache, radix, exponent,
                                              strict)
          IN  /\ out' = Call("getRadixConversionCache", <<radix, exponent>>,
                             call.res)
              /\ powerCache' = call.powerCache
    /\ UNCHANGED <<a, b, heapVars, staticInit>>

NextCache == StaticInit \/ GetRadixConversionCache

SpecCache == Init /\ [][NextCache]_vars

---------------------------------------------------------------------------
(* Claims *)

Returned == out.res.val

ReturnedInstance(ops) == out.op \in ops /\ out.res.kind = "ok"

\* Two calls end alike: both return, with the same sign and the same limbs,
\* or both throw.
SameOutcome(r1, r2) ==
    \/ /\ r1.kind = "ok" /\ r2.kind = "ok"
       /\ r1.val.signum = r2.val.signum
       /\ r1.val.mag = r2.val.mag
    \/ r1.kind # "ok" /\ r2.kind # "ok"

IsZeroValue(v) == v.signum = 0 /\ v.mag = <<>>

\* I1: the sign is 0 exactly when the magnitude is empty.
I1(v) == (v.signum = 0) <=> (v.mag = <<>>)

\* I2: no leading zero limb.
I2(v) == v.mag = <<>> \/ v.mag[1] # NumZero

\* C1: every instance returned by the constructor, negate, abs, add,
\* subtract or randomValue has sign 0 exactly when its magnitude is empty,
\* and a magnitude without a leading zero limb.
C1_ReturnedIsCanonical ==
    ReturnedInstance({"new", "negate", "abs", "add", "subtract",
                      "randomValue"})
        => I1(Returned) /\ I2(Returned)

\* b holds what a.negate() returns.
BIsNegateOfA ==
    /\ a # NoInstance /\ b # NoInstance
    /\ negate(a).kind = "ok"
    /\ negate(a).val.signum = b.signum
    /\ negate(a).val.mag = b.mag

\* C2: for every a, a.add(a.negate()) returns the ZERO value (sign 0, empty
\* magnitude) and raises no error.
C2_AddNegateIsZero ==
    (out.op = "add" /\ BIsNegateOfA)
        => out.res.kind = "ok" /\ IsZeroValue(Returned)

\* C3: a.add(b) and b.add(a) end alike: the same sign and limbs, or both
\* fail.
C3_AddCommutes ==
    out.op = "add" => SameOutcome(out.res, add(b, a))

\* C3's case: operands of opposite signs and different lengths, the shorter
\* one first, and a sum returned.
C3_Witness ==
    /\ out.op = "add" /\ out.res.kind = "ok"
    /\ a.signum = 1 /\ b.signum = -1
    /\ Len(a.mag) < Len(b.mag)
    /\ Returned.signum = -1

\* a.add(b.negate()), the call subtract is specified by.
AddOfNegate(x, y) ==
    IF negate(y).kind = "ok" THEN add(x, negate(y).val) ELSE negate(y)

\* C4: a.subtract(b) and a.add(b.negate()) end alike: the same sign and
\* limbs, or both fail.
C4_SubtractIsAddNegate ==
    out.op = "subtract" => SameOutcome(out.res, AddOfNegate(a, b))

\* C4's case: operands of the same sign, the smaller one first, and a
\* difference returned.
C4_Witness ==
    /\ out.op = "subtract" /\ out.res.kind = "ok"
    /\ a.signum = 1 /\ b.signum = 1
    /\ compareMagnitudes(a.mag, b.mag) < 0
    /\ Returned.signum = -1

\* The limbs, read as unsigned, are those of 2^k.
IsPow2(mag, k) ==
    /\ Len(mag) = (k \div 32) + 1
    /\ ToUint32(mag[1]) = Pow2Num(k % 32)
    /\ \A i \in 2..Len(mag) : ToUint32(mag[i]) = NumZero

\* The limbs, read as unsigned, are those of 2^k - 1.
IsPow2Minus1(mag, k) ==
    /\ Len(mag) = (k + 31) \div 32
    /\ Len(mag) > 0 =>
          ToUint32(mag[1]) = NumSub(Pow2Num(((k - 1) % 32) + 1), NumOne)
    /\ \A i \in 2..Len(mag) : ToUint32(mag[i]) = INT_MASK

MaxK == 32 * MAX_MAG_LENGTH

BitLengthIs(k) == out.res.kind = "ok" /\ out.res.num = k

\* C9: ZERO.bitLength() is 0, and for every k >= 0 the instances of value
\* -2^k and 2^k - 1 have bitLength() k.
C9_BitLength ==
    out.op = "bitLength" =>
        /\ IsZeroValue(a) => BitLengthIs(0)
        /\ \A k \in 0..MaxK :
              /\ (a.signum = -1 /\ IsPow2(a.mag, k)) => BitLengthIs(k)
              /\ (a.signum = (IF k = 0 THEN 0 ELSE 1)
                      /\ IsPow2Minus1(a.mag, k)) => BitLengthIs(k)

\* The arguments of the constructor call out records.
NewSignum == out.args[1]

NewStripped == stripLeadingZeroInts(out.args[2], FALSE)

\* A call of the constructor with sign +1 or -1 and limbs that are int32
\* values, the limbs the constructor takes.
NewOfInt32Limbs ==
    /\ out.op = "new"
    /\ NewSignum \in {-1, 1}
    /\ \A i \in 1..Len(out.args[2]) :
          ~NumGt(out.args[2][i], MAX_INT) /\ ~NumLt(out.args[2][i], MIN_INT)

Overflowed == out.res.kind = "ArithmeticException"

\* C10 as stated: the constructor fails with the overflow error when the
\* stripped length exceeds MAX_MAG_LENGTH, and does not fail with it when the
\* stripped length is at most MAX_MAG_LENGTH, whatever the leading limb.
C10_OverflowByLengthAlone ==
    NewOfInt32Limbs =>
        /\ Len(NewStripped) > MAX_MAG_LENGTH => Overflowed
        /\ Len(NewStripped) <= MAX_MAG_LENGTH => ~Overflowed

\* C10 amended: the constructor fails with the overflow error, and returns
\* no instance, exactly when the stripped length exceeds MAX_MAG_LENGTH or
\* equals it with a negative leading limb (bit 31 set).
C10_OverflowByLengthAndLeadingLimb ==
    NewOfInt32Limbs =>
        /\ Overflowed <=>
              \/ Len(NewStripped) > MAX_MAG_LENGTH
              \/ /\ Len(NewStripped) = MAX_MAG_LENGTH
                 /\ NumLt(NewStripped[1], NumZero)
        /\ Overflowed => Returned = NoInstance

\* C10's case: MAX_MAG_LENGTH limbs after stripping, the leading one
\* negative, and the overflow error.
C10_Witness ==
    /\ NewOfInt32Limbs
    /\ Len(NewStripped) = MAX_MAG_LENGTH
    /\ NumLt(NewStripped[1], NumZero)
    /\ Len(out.args[2]) > MAX_MAG_LENGTH
    /\ Overflowed

---------------------------------------------------------------------------
(* Parsing and printing *)

IsSign(c) == c \in {"+", "-"}

ValidRadix(radix) == radix >= 2 /\ radix <= 36

\* The text after a sign at index 0.
DigitPart(text) ==
    IF Len(text) > 0 /\ IsSign(text[1]) THEN Tail(text) ELSE text

LegalDigit(c, radix) == digitValue(c) >= 0 /\ digitValue(c) < radix

\* An optional single leading sign, then digits of the radix, at least one.
ValidNumeral(text, radix) ==
    /\ Len(DigitPart(text)) > 0
    /\ \A i \in 1..Len(DigitPart(text)) : LegalDigit(DigitPart(text)[i], radix)

RECURSIVE StripZeroDigits(_)
StripZeroDigits(digits) ==
    IF Len(digits) > 0 /\ digits[1] = "0" THEN StripZeroDigits(Tail(digits))
    ELSE digits

\* Sign normalized, leading zeros stripped, zero as "0".
Canonical(text) ==
    LET digits == StripZeroDigits(DigitPart(text))
    IN  IF Len(digits) = 0 THEN <<"0">>
        ELSE IF text[1] = "-" THEN <<"-">> \o digits
        ELSE digits

\* C5: for a valid numeral s in a radix r of 2..36,
\* fromString(s, r).toString(r) returns the canonical form of s.
C5_RoundTripIsCanonical ==
    (/\ out.op = "fromString.toString"
     /\ ValidRadix(out.args[2])
     /\ ValidNumeral(out.args[1], out.args[2]))
    => out.res.kind = "ok" /\ out.res.str = Canonical(out.args[1])

\* A sign anywhere but at index 0, or more than one sign.
MisplacedSign(text) ==
    \/ \E i \in 2..Len(text) : IsSign(text[i])
    \/ Cardinality({i \in 1..Len(text) : IsSign(text[i])}) > 1

RejectedBySignCheck(res) ==
    /\ res.kind = "NumberFormatException"
    /\ res.msg = "Illegal embedded sign character"

\* C6: with a valid radix, fromString throws NumberFormatException for every
\* non-empty text with a sign after index 0 or with more than one sign, and
\* the sign check lets through every text of one sign at index 0 followed
\* by at least one character.
C6_SignCheck ==
    (/\ out.op = "fromString"
     /\ ValidRadix(out.args[2])
     /\ Len(out.args[1]) > 0)
    => /\ MisplacedSign(out.args[1])
            => out.res.kind = "NumberFormatException"
       /\ (/\ IsSign(out.args[1][1])
           /\ Len(out.args[1]) > 1
           /\ ~MisplacedSign(out.args[1]))
            => ~RejectedBySignCheck(out.res)

\* A text of two signs, the first at index 0, was rejected.
C6_Witness ==
    /\ out.op = "fromString"
    /\ ValidRadix(out.args[2])
    /\ Len(out.args[1]) = 3
    /\ IsSign(out.args[1][1])
    /\ IsSign(out.args[1][3])
    /\ out.res.kind = "NumberFormatException"

\* C7: with a valid radix and a text that passes the sign check, fromString
\* throws NumberFormatException when the digit part holds a character that
\* is no digit of the radix, whichever group and place it is in.
C7_IllegalDigitIsFormatError ==
    (/\ out.op = "fromString"
     /\ ValidRadix(out.args[2])
     /\ ~MisplacedSign(out.args[1])
     /\ \E i \in 1..Len(DigitPart(out.args[1])) :
            ~LegalDigit(DigitPart(out.args[1])[i], out.args[2]))
    => out.res.kind = "NumberFormatException"

---------------------------------------------------------------------------
(* Random values *)

\* The low k bits of an unsigned 32-bit x, 1 <= k <= 32.
LowBits(x, k) ==
    IF k >= 16 THEN <<x[1] % 2^(k - 16), x[2]>> ELSE <<0, x[2] % 2^k>>

RECURSIVE StripZeroLimbs(_)
StripZeroLimbs(limbs) ==
    IF Len(limbs) > 0 /\ limbs[1] = NumZero THEN StripZeroLimbs(Tail(limbs))
    ELSE limbs

\* The limbs e of entropy with the high bits of e[0] beyond numBits cleared
\* and the leading zero limbs gone.
MaskedEntropy(numBits, e) ==
    LET n == (numBits + 31) \div 32
    IN  IF n = 0 THEN <<>>
        ELSE StripZeroLimbs(<<LowBits(e[1], numBits - 32 * (n - 1))>>
                            \o Tail(e))

UnsignedLimbs(mag) == [i \in 1..Len(mag) |-> ToUint32(mag[i])]

\* C8: for numBits >= 0 and entropy e of ceil(numBits / 32) limbs,
\* randomValue(numBits) returns the instance whose magnitude is e with the
\* low numBits - 32 * (n - 1) bits of e[0] kept, leading zero limbs
\* stripped, and whose sign is 1, or 0 for the empty magnitude.
C8_RandomValueMasksEntropy ==
    (out.op = "randomValue" /\ out.args[1] >= 0)
    => /\ out.res.kind = "ok"
       /\ UnsignedLimbs(Returned.mag) = MaskedEntropy(out.args[1], out.args[2])
       /\ Returned.signum = (IF Len(Returned.mag) = 0 THEN 0 ELSE 1)

---------------------------------------------------------------------------
(* Immutability *)

SameValue(before, after) ==
    before # NoInstance =>
        after.signum = before.signum /\ after.mag = before.mag

\* C11: once an instance is constructed its sign and limbs never change,
\* whatever the client does later: writing to the array it passed to the
\* constructor, writing to the array the mag getter returned, or calling
\* negate.
C11_ValueNeverChanges ==
    [][SameValue(a, a') /\ SameValue(b, b')]_vars

---------------------------------------------------------------------------
(* Magnitude arithmetic *)

\* The limb t places from the end of x, zero beyond its length.
LimbFromEnd(x, t) == IF t <= Len(x) THEN x[Len(x) - t + 1] ELSE NumZero

\* n modulo 2^32
ModTwo32(n) == <<n[1] % W16, n[2]>>

Longer(x, y) == IF Len(x) < Len(y) THEN Len(y) ELSE Len(x)

\* Schoolbook addition of the low k limbs: <<carry, limbs>>.
RECURSIVE ExactSumLow(_, _, _)
ExactSumLow(x, y, k) ==
    IF k = 0 THEN <<NumZero, <<>>>>
    ELSE LET prev == ExactSumLow(x, y, k - 1)
             sum == NumAdd(NumAdd(LimbFromEnd(x, k), LimbFromEnd(y, k)),
                           prev[1])
         IN  <<FloorDivTwo32(sum), <<ModTwo32(sum)>> \o prev[2]>>

\* The limbs of value(x) + value(y): Longer(x, y) of them, and a leading 1
\* when the last carry is 1.
ExactSum(x, y) ==
    LET low == ExactSumLow(x, y, Longer(x, y))
    IN  IF low[1] = NumZero THEN low[2] ELSE <<low[1]>> \o low[2]

InLimbRange(n) == IsNum(n) /\ NumGe(n, MIN_INT) /\ ~NumGt(n, INT_MASK)

\* C12: for non-empty x and y of unsigned 32-bit limbs, addMagnitudes(x, y)
\* returns limbs within the 32-bit range whose value is value(x) + value(y),
\* in max(len(x), len(y)) limbs, or one more when the last carry overflows.
C12_AddMagnitudesIsSum ==
    out.op = "addMagnitudes" =>
        /\ \A i \in 1..Len(out.res.limbs) : InLimbRange(out.res.limbs[i])
        /\ UnsignedLimbs(out.res.limbs) = ExactSum(out.args[1], out.args[2])

\* Schoolbook subtraction of the low k limbs: <<borrow (0 or -1), limbs>>.
RECURSIVE ExactDifferenceLow(_, _, _)
ExactDifferenceLow(big, little, k) ==
    IF k = 0 THEN <<NumZero, <<>>>>
    ELSE LET prev == ExactDifferenceLow(big, little, k - 1)
             difference ==
                 NumAdd(NumSub(LimbFromEnd(big, k), LimbFromEnd(little, k)),
                        prev[1])
         IN  <<FloorDivTwo32(difference),
               <<ModTwo32(difference)>> \o prev[2]>>

\* The limbs of value(big) - value(little), without leading zero limbs.
ExactDifference(big, little) ==
    StripZeroLimbs(ExactDifferenceLow(big, little, Len(big))[2])

CanonicalLimbs(x) == Len(x) = 0 \/ x[1] # NumZero

\* C13: for canonical big and little with compareMagnitudes(big, little)
\* >= 0, subtractMagnitudes(big, little) returns the limbs of value(big) -
\* value(little) without a leading zero limb.
C13_SubtractMagnitudesIsDifference ==
    (/\ out.op = "subtractMagnitudes"
     /\ CanonicalLimbs(out.args[1])
     /\ CanonicalLimbs(out.args[2])
     /\ compareMagnitudes(out.args[1], out.args[2]) >= 0)
    => /\ out.res.kind = "ok"
       /\ UnsignedLimbs(out.res.limbs)
              = ExactDifference(out.args[1], out.args[2])

\* a * b + c for unsigned 32-bit a, b, c, by 16-bit halves with no carry
\* dropped: <<high word, low word>>.
ExactProduct(a_, b_, c) ==
    LET low == NumAdd(Mul16(a_[2], b_[2]), c)
        middle == NumAdd(NumAdd(Mul16(a_[1], b_[2]), Mul16(a_[2], b_[1])),
                         Num(low[1]))
        high == NumAdd(Mul16(a_[1], b_[1]), Num(middle[1]))
    IN  <<high, <<middle[2], low[2]>>>>

\* C14: for unsigned 32-bit a, b and carry c, multiplyCarryInt(a, b, c)
\* returns [high, low], 32-bit words with high * 2^32 + low (read as
\* unsigned) equal to a * b + c.
C14_MultiplyCarryIntIsExact ==
    out.op = "multiplyCarryInt" =>
        /\ \A i \in 1..2 : InLimbRange(out.res.limbs[i])
        /\ UnsignedLimbs(out.res.limbs)
              = ExactProduct(out.args[1], out.args[2], out.args[3])

---------------------------------------------------------------------------
(* The radix cache *)

\* The instance of value radix^(2^k), a value below 2^31 here.
PowerOfRadix(radix, k) == Instance(1, <<Num(radix ^ (2 ^ k))>>)

\* C15: after static initialization and any calls of
\* getRadixConversionCache(radix, exponent) with radix in 2..36, every radix
\* in 2..36 has a table, the entry at index k of it is radix^(2^k), and a
\* call returns radix^(2^exponent).
C15_PowerCacheIsCorrect ==
    staticInit # "pending" =>
        /\ \A radix \in MIN_RADIX..MAX_RADIX :
              /\ powerCache[radix].present
              /\ Len(powerCache[radix].line) > 0
              /\ \A k \in 1..Len(powerCache[radix].line) :
                    SameValue(PowerOfRadix(radix, k - 1),
                              powerCache[radix].line[k])
        /\ out.op = "getRadixConversionCache" =>
              /\ out.res.kind = "ok"
              /\ SameValue(PowerOfRadix(out.args[1], out.args[2]),
                           out.res.val)

====
